---- MODULE Spec2Model ----
(***************************************************************************)
(* A model of the TooConvert request handlers of src/main.py: split_pdf,   *)
(* merge_pdf, compress_image, base64_encode / base64_decode and the        *)
(* handlers that keep scratch files under temp/ or a mkdtemp directory.    *)
(*                                                                         *)
(* Each handler has its own group of variables and its own specification   *)
(* (SpecSplit, SpecMerge, SpecCompress, SpecBase64, SpecScratch); a        *)
(* specification leaves the other groups at their idle values.             *)
(***************************************************************************)
EXTENDS Integers, Sequences, FiniteSets, TLC

VARIABLES
    \* split_pdf
    splitPc, reader, pages_per_split, i, zip_file, splitResp,
    \* merge_pdf (one request, file by file)
    mergePc, files, fileIdx, merger, output_file, mergeResp,
    \* compress_image
    compPc, image, target_size, quality, compressed_data, encodes, minLen,
    compResp,
    \* base64_encode, then base64_decode of what it returned
    b64Pc, file, text, encResp, encoded, decResp,
    \* concurrent requests that keep scratch files
    reqs, rpc, fs, created, respPath, scratchResp, tmpCount

splitVars == <<splitPc, reader, pages_per_split, i, zip_file, splitResp>>
mergeVars == <<mergePc, files, fileIdx, merger, output_file, mergeResp>>
compVars == <<compPc, image, target_size, quality, compressed_data, encodes,
              minLen, compResp>>
b64Vars == <<b64Pc, file, text, encResp, encoded, decResp>>
scratchVars == <<reqs, rpc, fs, created, respPath, scratchResp, tmpCount>>
vars == <<splitVars, mergeVars, compVars, b64Vars, scratchVars>>

\* What each handler's steps leave alone: the other handlers' variables.
notSplit == <<mergeVars, compVars, b64Vars, scratchVars>>
notMerge == <<splitVars, compVars, b64Vars, scratchVars>>
notComp == <<splitVars, mergeVars, b64Vars, scratchVars>>
notB64 == <<splitVars, mergeVars, compVars, scratchVars>>
notScratch == <<splitVars, mergeVars, compVars, b64Vars>>

\* ------------------------------------------------------------- bounds

MaxPages == 10
MaxStep == 12
MaxNonPositive == 2
MaxFiles == 3
MaxDocPages == 2
MaxKB == 2
MaxNegTarget == 1
MaxPayloadLen == 3
NumReq == 2
MaxImages == 2

\* ------------------------------------------------------------- helpers

None == "None"

\* An optional request parameter: absent (Python's None) or a value.
Absent == [some |-> FALSE]
Some(v) == [some |-> TRUE, val |-> v]

Min(a, b) == IF a < b THEN a ELSE b

\* Page objects of the uploaded document: page k of an N-page document.
PageSeq(n) == [k \in 1..n |-> k]

\* The response of a handler that has not answered yet.
NoResp == [status |-> 0, body |-> None]

\* An exception no handler catches: the framework answers 500.
Uncaught500 == [status |-> 500, body |-> "Internal Server Error"]

\* ------------------------------------------------------------- split_pdf

StepChoices == (0 - MaxNonPositive)..MaxStep

\* Python's range(start, stop, step) has a next value v: v < stop when
\* step > 0, v > stop when step < 0 (step = 0 raises ValueError).
RangeHas(v, stop, step) ==
    IF step > 0 THEN v < stop ELSE IF step < 0 THEN v > stop ELSE FALSE

\* A slip: the member is named by the 0-based index of its first page.
SplitNameZeroBased(start) == <<"split_", start, ".pdf">>

\* f"split_{i+1}.pdf"
SplitName(start) == <<"split_", start + 1, ".pdf">>

\* A slip: the inner range stops one page early.
ChunkPagesShort(pages, start, step) ==
    LET stop == Min(start + step - 1, Len(pages))
    IN  [k \in 1..(IF stop > start THEN stop - start ELSE 0) |-> pages[start + k]]

\* for j in range(i, min(i + pages_per_split, len(pages))): add_page(pages[j])
\* (pages[j] is 0-indexed, sequences here are 1-indexed)
ChunkPages(pages, start, step) ==
    LET stop == Min(start + step, Len(pages))
    IN  [k \in 1..(IF stop > start THEN stop - start ELSE 0) |-> pages[start + k]]

SplitIdle ==
    /\ splitPc = "idle" /\ reader = <<>> /\ pages_per_split = 1 /\ i = 0
    /\ zip_file = <<>> /\ splitResp = NoResp

\* range(0, len(reader.pages), pages_per_split) is built: ValueError when the
\* step is 0, which nothing catches.
SplitOpen ==
    /\ splitPc = "start"
    /\ IF pages_per_split = 0
       THEN /\ splitPc' = "done"
            /\ splitResp' = Uncaught500
       ELSE /\ splitPc' = "loop"
            /\ splitResp' = splitResp
    /\ UNCHANGED <<reader, pages_per_split, i, zip_file, notSplit>>

\* One pass of the outer loop: a chunk is written to the archive.
SplitChunk ==
    /\ splitPc = "loop"
    /\ RangeHas(i, Len(reader), pages_per_split)
    /\ zip_file' = Append(zip_file,
                          [name |-> SplitName(i),
                           pages |-> ChunkPages(reader, i, pages_per_split)])
    /\ i' = i + pages_per_split
    /\ UNCHANGED <<splitPc, reader, pages_per_split, splitResp, notSplit>>

\* The range is exhausted: the archive is streamed back.
SplitRespond ==
    /\ splitPc = "loop"
    /\ ~RangeHas(i, Len(reader), pages_per_split)
    /\ splitPc' = "done"
    /\ splitResp' = [status |-> 200, body |-> zip_file]
    /\ UNCHANGED <<reader, pages_per_split, i, zip_file, notSplit>>

NextSplit == SplitOpen \/ SplitChunk \/ SplitRespond

\* ------------------------------------------------------------- merge_pdf

Pages == {1, 2}

Docs == UNION {[1..n -> Pages] : n \in 0..MaxDocPages}

\* A slip: a document's pages are added last page first.
RECURSIVE AddPagesReversed(_, _)
AddPagesReversed(w, pages) ==
    IF pages = <<>> THEN w
    ELSE AddPagesReversed(Append(w, pages[Len(pages)]), SubSeq(pages, 1, Len(pages) - 1))

\* for page in reader.pages: merger.add_page(page)
RECURSIVE AddPages(_, _)
AddPages(w, pages) ==
    IF pages = <<>> THEN w ELSE AddPages(Append(w, Head(pages)), Tail(pages))

MergeIdle ==
    /\ mergePc = "idle" /\ files = <<>> /\ fileIdx = 0 /\ merger = <<>>
    /\ output_file = None /\ mergeResp = NoResp

\* One pass of `for file in files`.
MergeRead ==
    /\ mergePc = "loop"
    /\ fileIdx < Len(files)
    /\ merger' = AddPages(merger, files[fileIdx + 1])
    /\ fileIdx' = fileIdx + 1
    /\ UNCHANGED <<mergePc, files, output_file, mergeResp, notMerge>>

\* merger.write(f) to temp/merged.pdf
MergeWrite ==
    /\ mergePc = "loop"
    /\ fileIdx = Len(files)
    /\ output_file' = [path |-> "temp/merged.pdf", data |-> merger]
    /\ mergePc' = "written"
    /\ UNCHANGED <<files, fileIdx, merger, mergeResp, notMerge>>

\* FileResponse(output_file) streams the file back.
MergeRespond ==
    /\ mergePc = "written"
    /\ mergeResp' = [status |-> 200, body |-> output_file.data]
    /\ mergePc' = "done"
    /\ UNCHANGED <<files, fileIdx, merger, output_file, notMerge>>

NextMerge == MergeRead \/ MergeWrite \/ MergeRespond

\* ------------------------------------------------------------- compress_image

InitialQuality == 95
MinQuality == 10
QualityStep == 5
KB == 1024

\* Byte lengths a JPEG encoding may have: a whole number of KB, or one byte
\* more.
Lens == {KB * k + d : k \in 1..MaxKB, d \in {0, 1}}

TargetChoices == (0 - MaxNegTarget)..(MaxKB + 1)

\* compressed_size > target_size, with compressed_size = len(data) / 1024:
\* the division by a power of two is exact, so this is len > 1024 * target.
SizeExceeds(len, target) == len > KB * target

\* A slip: the loop gives up one step above the quality floor.
LoopGuardFloor15(len, target, q) ==
    SizeExceeds(len, target) /\ q > MinQuality + QualityStep

\* A slip: the quality floor is 0, not 10.
LoopGuardNoFloor(len, target, q) == SizeExceeds(len, target) /\ q > 0

\* while compressed_size > target_size and quality > 10
LoopGuard(len, target, q) == SizeExceeds(len, target) /\ q > MinQuality

\* image.save(buf, format="JPEG", quality=q); buf.getvalue(): the encoder is
\* an external codec, so the length of an encoding is any length; `image`
\* fixes the one at the quality floor, the others are chosen as they are made
\* (the loop encodes at each quality at most once).
Encodings(img, q) ==
    {[quality |-> q, len |-> n] : n \in (IF q = MinQuality THEN {img.floorLen} ELSE Lens)}

CompIdle ==
    /\ compPc = "idle" /\ image = None /\ target_size = 0 /\ quality = 0
    /\ compressed_data = None /\ encodes = 0 /\ minLen = 0 /\ compResp = NoResp

\* quality = 95 and the first encoding
CompressFirst ==
    /\ compPc = "start"
    /\ quality' = InitialQuality
    /\ \E e \in Encodings(image, InitialQuality) :
          /\ compressed_data' = e
          /\ minLen' = e.len
    /\ encodes' = 1
    /\ compPc' = "loop"
    /\ UNCHANGED <<image, target_size, compResp, notComp>>

\* One pass of the while loop.
CompressStep ==
    /\ compPc = "loop"
    /\ LoopGuard(compressed_data.len, target_size, quality)
    /\ quality' = quality - QualityStep
    /\ \E e \in Encodings(image, quality - QualityStep) :
          /\ compressed_data' = e
          /\ minLen' = Min(minLen, e.len)
    /\ encodes' = encodes + 1
    /\ UNCHANGED <<compPc, image, target_size, compResp, notComp>>

\* The loop is left: StreamingResponse(io.BytesIO(compressed_data)).
CompressRespond ==
    /\ compPc = "loop"
    /\ ~LoopGuard(compressed_data.len, target_size, quality)
    /\ compResp' = [status |-> 200, body |-> compressed_data]
    /\ compPc' = "done"
    /\ UNCHANGED <<image, target_size, quality, compressed_data, encodes, minLen,
                   notComp>>

NextCompress == CompressFirst \/ CompressStep \/ CompressRespond

\* ------------------------------------------------------------- base64

Alphabet ==
    <<"A","B","C","D","E","F","G","H","I","J","K","L","M","N","O","P",
      "Q","R","S","T","U","V","W","X","Y","Z","a","b","c","d","e","f",
      "g","h","i","j","k","l","m","n","o","p","q","r","s","t","u","v",
      "w","x","y","z","0","1","2","3","4","5","6","7","8","9","+","/">>

Pad == "="

Sextet(c) == (CHOOSE k \in 1..64 : Alphabet[k] = c) - 1

\* base64.b64encode(data).decode(): 3 bytes make 4 characters, a rest of 1
\* byte makes 2 characters and "==", a rest of 2 bytes 3 characters and "=".
RECURSIVE B64Encode(_)
B64Encode(data) ==
    IF Len(data) = 0 THEN <<>>
    ELSE IF Len(data) = 1 THEN
        <<Alphabet[(data[1] \div 4) + 1], Alphabet[(data[1] % 4) * 16 + 1], Pad, Pad>>
    ELSE IF Len(data) = 2 THEN
        <<Alphabet[(data[1] \div 4) + 1],
          Alphabet[(data[1] % 4) * 16 + (data[2] \div 16) + 1],
          Alphabet[(data[2] % 16) * 4 + 1], Pad>>
    ELSE
        <<Alphabet[(data[1] \div 4) + 1],
          Alphabet[(data[1] % 4) * 16 + (data[2] \div 16) + 1],
          Alphabet[(data[2] % 16) * 4 + (data[3] \div 64) + 1],
          Alphabet[(data[3] % 64) + 1]>>
        \o B64Encode(SubSeq(data, 4, Len(data)))

\* base64.b64decode(encoded) of characters of the alphabet and "=": a length
\* that is no multiple of 4 raises binascii.Error ("Incorrect padding").
RECURSIVE B64Decode(_)
B64Decode(s) ==
    IF Len(s) = 0 THEN [ok |-> TRUE, data |-> <<>>]
    ELSE IF Len(s) < 4 THEN [ok |-> FALSE]
    ELSE
        LET a == Sextet(s[1])
            b == Sextet(s[2])
            quad == IF s[3] = Pad THEN <<a * 4 + (b \div 16)>>
                    ELSE IF s[4] = Pad
                    THEN <<a * 4 + (b \div 16), (b % 16) * 16 + (Sextet(s[3]) \div 4)>>
                    ELSE <<a * 4 + (b \div 16), (b % 16) * 16 + (Sextet(s[3]) \div 4),
                           (Sextet(s[3]) % 4) * 64 + Sextet(s[4])>>
            rest == B64Decode(SubSeq(s, 5, Len(s)))
        IN  IF rest.ok THEN [ok |-> TRUE, data |-> quad \o rest.data]
            ELSE [ok |-> FALSE]

\* text.encode(): UTF-8, one byte below U+0080, two bytes below U+0800.
RECURSIVE Utf8(_)
Utf8(str) ==
    IF str = <<>> THEN <<>>
    ELSE (IF Head(str) < 128 THEN <<Head(str)>>
          ELSE <<192 + (Head(str) \div 64), 128 + (Head(str) % 64)>>)
         \o Utf8(Tail(str))

Bytes == {0, 255}
Chars == {65, 233}

FileChoices ==
    {Absent} \cup {Some(d) : d \in UNION {[1..n -> Bytes] : n \in 0..MaxPayloadLen}}
TextChoices ==
    {Absent} \cup {Some(t) : t \in UNION {[1..n -> Chars] : n \in 0..MaxPayloadLen}}

\* Python's truth value of the parameters: an UploadFile object is true, a
\* str is true unless empty, None is false.
Truthy(v) == v.some /\ Len(v.val) > 0
FileTruthy(f) == f.some

B64Idle ==
    /\ b64Pc = "idle" /\ file = Absent /\ text = Absent /\ encResp = NoResp
    /\ encoded = None /\ decResp = NoResp

\* The handler base64_encode; a returned dict is answered with status 200.
Base64Encode ==
    /\ b64Pc = "start"
    /\ encResp' =
         IF ~FileTruthy(file) /\ ~Truthy(text)
         THEN [status |-> 200, body |-> [error |-> "No input provided"]]
         ELSE [status |-> 200,
               body |-> [base64 |-> B64Encode(IF FileTruthy(file) THEN file.val
                                              ELSE Utf8(text.val))]]
    /\ b64Pc' = "encoded"
    /\ UNCHANGED <<file, text, encoded, decResp, notB64>>

\* The client sends the value it received to base64_decode.
Base64Decode ==
    /\ b64Pc = "encoded"
    /\ "base64" \in DOMAIN encResp.body
    /\ encoded' = encResp.body.base64
    /\ decResp' = LET data == B64Decode(encResp.body.base64)
                  IN  IF data.ok THEN [status |-> 200, body |-> data.data]
                      ELSE Uncaught500
    /\ b64Pc' = "decoded"
    /\ UNCHANGED <<file, text, encResp, notB64>>

NextBase64 == Base64Encode \/ Base64Decode

\* ------------------------------------------------------------- scratch files

Req == 1..NumReq

\* UPLOAD_DIR = "temp"; tempfile.mkdtemp() makes a directory no one else has.
UploadDir == [root |-> "temp", n |-> 0]
TempDir(k) == [root |-> "mkdtemp", n |-> k]

Filenames == {[stem |-> "a", ext |-> ".pdf"], [stem |-> "b", ext |-> ".pdf"]}

\* os.path.join(dir, name)
Join(dir, name) == [dir |-> dir, name |-> name]

\* input_path.replace(".pdf", ".docx")
ReplacePdfByDocx(path) ==
    IF path.name.ext = ".pdf"
    THEN [path EXCEPT !.name.ext = ".docx"]
    ELSE path

\* output_file = "temp/merged.pdf"
MergedFile == Join(UploadDir, [stem |-> "merged", ext |-> ".pdf"])

PageStems == <<"page_0", "page_1", "page_2", "page_3">>

\* f"page_{i}.{format.lower()}" with the default format
PageFile(dir, k) == Join(dir, [stem |-> PageStems[k + 1], ext |-> ".jpg"])
ZipFile(dir) == Join(dir, [stem |-> "images", ext |-> ".zip"])
DirEntry(dir) == Join(dir, [stem |-> ".", ext |-> ""])

\* open(path, "wb").write(data): the file is made or overwritten.
WriteFile(f, path, data) ==
    [q \in DOMAIN f \cup {path} |-> IF q = path THEN data ELSE f[q]]

RECURSIVE WritePages(_, _, _, _)
WritePages(f, dir, n, r) ==
    IF n = 0 THEN f
    ELSE WriteFile(WritePages(f, dir, n - 1, r), PageFile(dir, n - 1),
                   [kind |-> "page", owner |-> r])

Endpoints == {"merge_pdf", "convert_pdf_to_docx", "convert_pdf_to_image"}

RequestChoices ==
    [endpoint : Endpoints, filename : Filenames, fails : BOOLEAN,
     images : 1..MaxImages]

NoPath == [some |-> FALSE]

ScratchIdle ==
    /\ reqs = [r \in Req |-> [endpoint |-> "none"]]
    /\ rpc = [r \in Req |-> "idle"]
    /\ fs = <<>>
    /\ created = [r \in Req |-> {}]
    /\ respPath = [r \in Req |-> NoPath]
    /\ scratchResp = [r \in Req |-> NoResp]
    /\ tmpCount = 0

\* merge_pdf, from the last `await file.read()` to its return: the merged
\* document is written to temp/merged.pdf and a FileResponse of that path is
\* returned.
HandleMerge(r) ==
    /\ rpc[r] = "new"
    /\ reqs[r].endpoint = "merge_pdf"
    /\ fs' = WriteFile(fs, MergedFile, [kind |-> "merged", owner |-> r])
    /\ created' = [created EXCEPT ![r] = @ \cup {MergedFile}]
    /\ respPath' = [respPath EXCEPT ![r] = Some(MergedFile)]
    /\ rpc' = [rpc EXCEPT ![r] = "returned"]
    /\ UNCHANGED <<reqs, scratchResp, tmpCount, notScratch>>

\* convert_pdf_to_docx, from save_upload's `await file.read()` to its return:
\* the upload is written to temp/<filename>, the converter reads that path and
\* writes the .docx beside it, or raises and the handler answers 500.
HandleDocx(r) ==
    /\ rpc[r] = "new"
    /\ reqs[r].endpoint = "convert_pdf_to_docx"
    /\ LET input_path == Join(UploadDir, reqs[r].filename)
           output_path == ReplacePdfByDocx(input_path)
           saved == WriteFile(fs, input_path, [kind |-> "upload", owner |-> r])
       IN  IF reqs[r].fails
           THEN /\ fs' = saved
                /\ created' = [created EXCEPT ![r] = @ \cup {input_path}]
                /\ scratchResp' = [scratchResp EXCEPT
                                     ![r] = [status |-> 500, body |-> None]]
                /\ rpc' = [rpc EXCEPT ![r] = "done"]
                /\ UNCHANGED respPath
           ELSE /\ fs' = WriteFile(saved, output_path,
                                   [kind |-> "docx", owner |-> saved[input_path].owner])
                /\ created' = [created EXCEPT ![r] = @ \cup {input_path, output_path}]
                /\ respPath' = [respPath EXCEPT ![r] = Some(output_path)]
                /\ rpc' = [rpc EXCEPT ![r] = "returned"]
                /\ UNCHANGED scratchResp
    /\ UNCHANGED <<reqs, tmpCount, notScratch>>

\* convert_pdf_to_image: a mkdtemp directory holds the upload, one image per
\* page and, for more than one page, images.zip; an exception is answered 500.
HandleImage(r) ==
    /\ rpc[r] = "new"
    /\ reqs[r].endpoint = "convert_pdf_to_image"
    /\ tmpCount' = tmpCount + 1
    /\ LET temp_dir == TempDir(tmpCount + 1)
           input_path == Join(temp_dir, reqs[r].filename)
           saved == WriteFile(WriteFile(fs, DirEntry(temp_dir),
                                        [kind |-> "dir", owner |-> r]),
                              input_path, [kind |-> "upload", owner |-> r])
           n == reqs[r].images
           output_files == {PageFile(temp_dir, k) : k \in 0..(n - 1)}
           paged == WritePages(saved, temp_dir, n, r)
       IN  IF reqs[r].fails
           THEN /\ fs' = saved
                /\ created' = [created EXCEPT
                                 ![r] = @ \cup {DirEntry(temp_dir), input_path}]
                /\ scratchResp' = [scratchResp EXCEPT
                                     ![r] = [status |-> 500, body |-> None]]
                /\ rpc' = [rpc EXCEPT ![r] = "done"]
                /\ UNCHANGED respPath
           ELSE IF n = 1
           THEN /\ fs' = paged
                /\ created' = [created EXCEPT
                                 ![r] = @ \cup {DirEntry(temp_dir), input_path}
                                          \cup output_files]
                /\ respPath' = [respPath EXCEPT ![r] = Some(PageFile(temp_dir, 0))]
                /\ rpc' = [rpc EXCEPT ![r] = "returned"]
                /\ UNCHANGED scratchResp
           ELSE /\ fs' = WriteFile(paged, ZipFile(temp_dir),
                                   [kind |-> "zip", owner |-> r])
                /\ created' = [created EXCEPT
                                 ![r] = @ \cup {DirEntry(temp_dir), input_path,
                                                ZipFile(temp_dir)}
                                          \cup output_files]
                /\ respPath' = [respPath EXCEPT ![r] = Some(ZipFile(temp_dir))]
                /\ rpc' = [rpc EXCEPT ![r] = "returned"]
                /\ UNCHANGED scratchResp
    /\ UNCHANGED <<reqs, notScratch>>

\* The FileResponse a handler returned is sent: the file at its path is read
\* when the response goes out, after the handler has returned.
SendFile(r) ==
    /\ rpc[r] = "returned"
    /\ scratchResp' = [scratchResp EXCEPT
                         ![r] = [status |-> 200, body |-> fs[respPath[r].val]]]
    /\ rpc' = [rpc EXCEPT ![r] = "done"]
    /\ UNCHANGED <<reqs, fs, created, respPath, tmpCount, notScratch>>

NextScratch ==
    \E r \in Req : HandleMerge(r) \/ HandleDocx(r) \/ HandleImage(r) \/ SendFile(r)

\* ------------------------------------------------------------- specifications

InitSplit ==
    /\ MergeIdle /\ CompIdle /\ B64Idle /\ ScratchIdle
    /\ splitPc = "start"
    /\ reader \in {PageSeq(n) : n \in 0..MaxPages}
    /\ pages_per_split \in StepChoices
    /\ i = 0
    /\ zip_file = <<>>
    /\ splitResp = NoResp

InitMerge ==
    /\ SplitIdle /\ CompIdle /\ B64Idle /\ ScratchIdle
    /\ mergePc = "loop"
    /\ files \in UNION {[1..n -> Docs] : n \in 1..MaxFiles}
    /\ fileIdx = 0
    /\ merger = <<>>
    /\ output_file = None
    /\ mergeResp = NoResp

InitCompress ==
    /\ SplitIdle /\ MergeIdle /\ B64Idle /\ ScratchIdle
    /\ compPc = "start"
    /\ image \in {[floorLen |-> n] : n \in Lens}
    /\ target_size \in TargetChoices
    /\ quality = 0
    /\ compressed_data = None
    /\ encodes = 0
    /\ minLen = 0
    /\ compResp = NoResp

InitBase64 ==
    /\ SplitIdle /\ MergeIdle /\ CompIdle /\ ScratchIdle
    /\ b64Pc = "start"
    /\ file \in FileChoices
    /\ text \in TextChoices
    /\ encResp = NoResp
    /\ encoded = None
    /\ decResp = NoResp

InitScratch ==
    /\ SplitIdle /\ MergeIdle /\ CompIdle /\ B64Idle
    /\ reqs \in [Req -> RequestChoices]
    /\ rpc = [r \in Req |-> "new"]
    /\ fs = <<>>
    /\ created = [r \in Req |-> {}]
    /\ respPath = [r \in Req |-> NoPath]
    /\ scratchResp = [r \in Req |-> NoResp]
    /\ tmpCount = 0

SpecSplit == InitSplit /\ [][NextSplit]_vars

SpecMerge == InitMerge /\ [][NextMerge]_vars

SpecCompress == InitCompress /\ [][NextCompress]_vars

SpecBase64 == InitBase64 /\ [][NextBase64]_vars

SpecScratch == InitScratch /\ [][NextScratch]_vars

\* The service as a whole: a behaviour is the work of one of the handlers.
Init == InitSplit \/ InitMerge \/ InitCompress \/ InitBase64 \/ InitScratch

Next == NextSplit \/ NextMerge \/ NextCompress \/ NextBase64 \/ NextScratch

Spec == Init /\ [][Next]_vars

\* ------------------------------------------------------------- claims: split_pdf

RECURSIVE ConcatChunks(_)
ConcatChunks(archive) ==
    IF archive = <<>> THEN <<>>
    ELSE Head(archive).pages \o ConcatChunks(Tail(archive))

\* C1: for every page count N >= 0 and every pages_per_split S > 0 the archive
\* answered holds exactly ceil(N/S) chunks, chunk k (0-indexed) holds exactly
\* the pages [k*S, min((k+1)*S, N)) in source order, and the chunks
\* concatenated in archive order are the original page sequence.
C1_SplitPartition ==
    (splitPc = "done" /\ pages_per_split > 0) =>
        LET N == Len(reader)
            S == pages_per_split
            body == splitResp.body
        IN  /\ splitResp.status = 200
            /\ Len(body) = (N + S - 1) \div S
            /\ \A k \in 0..(Len(body) - 1) :
                  /\ Len(body[k + 1].pages) = Min((k + 1) * S, N) - k * S
                  /\ \A j \in 1..Len(body[k + 1].pages) :
                        body[k + 1].pages[j] = reader[k * S + j]
            /\ ConcatChunks(body) = reader
            /\ (N = 0 => body = <<>>)
            /\ (S >= N /\ N > 0 => Len(body) = 1 /\ body[1].pages = reader)

\* A 10-page document split by 3 has been answered: the last chunk is short.
C1_Witness ==
    /\ splitPc = "done" /\ pages_per_split = 3 /\ Len(reader) = 10
    /\ Len(splitResp.body) = 4
    /\ splitResp.body[4].pages = <<10>>

\* C6: for every N >= 0 and S > 0 the k-th archive member (0-indexed) is named
\* split_{k*S+1}.pdf, the names are pairwise distinct and strictly increasing
\* in that index, and members stand in the order the chunks were produced
\* (the archive built so far is always a prefix of this naming, and the
\* archive answered is the archive built).
C6_SplitNames ==
    (splitPc \in {"loop", "done"} /\ pages_per_split > 0) =>
        /\ \A k \in 0..(Len(zip_file) - 1) :
              zip_file[k + 1].name = <<"split_", k * pages_per_split + 1, ".pdf">>
        /\ \A a, b \in 1..Len(zip_file) :
              a < b => zip_file[a].name[2] < zip_file[b].name[2]
        /\ (splitPc = "done" => splitResp.body = zip_file)
        /\ (splitPc = "done" /\ Len(reader) = 10 /\ pages_per_split = 3 =>
               /\ [k \in 1..Len(zip_file) |-> zip_file[k].name[2]] = <<1, 4, 7, 10>>
               /\ [k \in 1..Len(zip_file) |-> Len(zip_file[k].pages)] = <<3, 3, 3, 1>>)

\* The scenario of C6: 10 pages by 3, answered with four members.
C6_Witness ==
    /\ splitPc = "done" /\ pages_per_split = 3 /\ Len(reader) = 10
    /\ Len(zip_file) = 4
    /\ zip_file[4].name = <<"split_", 10, ".pdf">>

\* C7: every request with pages_per_split <= 0 is rejected as InvalidParameter
\* (status 400) and returns no archive: never a success, never an unclassified
\* 500.
C7_RejectsNonPositive ==
    (splitPc = "done" /\ pages_per_split <= 0) => splitResp.status = 400

\* ------------------------------------------------------------- claims: merge_pdf

RECURSIVE Flatten(_)
Flatten(docs) == IF docs = <<>> THEN <<>> ELSE Head(docs) \o Flatten(Tail(docs))

RECURSIVE TotalPages(_)
TotalPages(docs) ==
    IF docs = <<>> THEN 0 ELSE Len(Head(docs)) + TotalPages(Tail(docs))

C3_FloorDecides ==
    compPc = "done" =>
        /\ (~SizeExceeds(image.floorLen, target_size) =>
               ~SizeExceeds(compResp.body.len, target_size))
        /\ (SizeExceeds(image.floorLen, target_size) =>
               quality = 10 /\ SizeExceeds(compResp.body.len, target_size))
        /\ compResp.body = compressed_data

\* C3 amended: if the target is at least the size at quality 10, the encoding
\* returned is within the target; if the target is below the size of the
\* encoding at every quality 95, 90, ..., 10 (at quality 10 and at each quality
\* tried before it), the loop ends at quality 10 with the returned encoding
\* larger than the target; the bytes returned are the last encoding produced,
\* the one made at the quality the loop ended on.
C3_BestEffort ==
    compPc = "done" =>
        /\ (~SizeExceeds(image.floorLen, target_size) =>
               ~SizeExceeds(compResp.body.len, target_size))
        /\ (SizeExceeds(image.floorLen, target_size)
              /\ SizeExceeds(minLen, target_size) =>
               quality = 10 /\ SizeExceeds(compResp.body.len, target_size))
        /\ compResp.body = compressed_data
        /\ compResp.body.quality = quality

\* A positive target below every encoding: the loop ran down to quality 10
\* and answered an encoding above the target.
C3_Witness ==
    /\ compPc = "done" /\ target_size = 1 /\ quality = 10
    /\ image.floorLen = KB + 1
    /\ minLen = KB + 1
    /\ compResp.body.len = KB + 1

\* C4: for every image and every integer target_size, values <= 0 included,
\* the loop ends after at most 18 encodings, each made at a quality in
\* {95, 90, ..., 10}; before the answer a step is always possible.
C4_QualityBounds ==
    /\ encodes <= 18
    /\ (compPc \in {"loop", "done"} =>
           /\ quality \in {95 - 5 * k : k \in 0..17}
           /\ compressed_data.quality = quality
           /\ encodes = ((95 - quality) \div 5) + 1)
    /\ (compPc \in {"start", "loop"} => ENABLED NextCompress)

\* A target of 0 or less: all 18 encodings were made and quality 10 answered.
C4_Witness ==
    /\ compPc = "done" /\ target_size <= 0 /\ encodes = 18 /\ quality = 10
    /\ compResp.body.quality = 10

\* ------------------------------------------------------------- claims: base64

\* The payload X of an encode request: the file part if given, else the text.
Payload == IF file.some THEN file.val ELSE Utf8(text.val)

\* C9: a request with neither the file part nor the text field is rejected
\* with status 400 and no base64 value; status 200 is answered only when an
\* input is present.
C9_MissingInput400 ==
    (b64Pc \in {"encoded", "decoded"} /\ ~file.some /\ ~text.some) =>
        /\ encResp.status = 400
        /\ "base64" \notin DOMAIN encResp.body

\* C10: for every payload X, the empty one included, given as the file part or
\* as the text field, base64_encode returns a base64 value and base64_decode
\* of that value returns exactly X.
C10_RoundTrip ==
    (file.some \/ text.some) =>
        /\ (b64Pc \in {"encoded", "decoded"} => "base64" \in DOMAIN encResp.body)
        /\ (b64Pc = "decoded" => decResp.status = 200 /\ decResp.body = Payload)

\* What holds of the code: whenever base64_encode did return a value, decoding
\* it gives the payload back.
RoundTripWhenEncoded ==
    b64Pc = "decoded" => decResp.status = 200 /\ decResp.body = Payload

\* ------------------------------------------------------------- claims: scratch files

\* C5: under any interleaving, requests write their scratch files under names
\* no other request uses, and the artifact a request streams back is the one
\* made from its own upload.
C5_Isolation ==
    /\ \A r1, r2 \in Req : r1 # r2 => created[r1] \cap created[r2] = {}
    /\ \A r \in Req :
          (rpc[r] = "done" /\ scratchResp[r].status = 200) =>
              scratchResp[r].body.owner = r

\* C8: once a request has finished, on success or on error, every scratch
\* file and directory it created has been removed.
C8_Cleanup ==
    \A r \in Req : rpc[r] = "done" => created[r] \cap DOMAIN fs = {}

====
